---------------------------- MODULE Spec2Model ----------------------------
(***************************************************************************)
(* The Surot extinction map of synthpop                                    *)
(* (src/synthpop/_modules/extinction/surot.py) as a state machine.         *)
(*                                                                         *)
(* Units.  Longitudes and latitudes are integers counting tenths of a      *)
(* degree, so 360 degrees is 3600.  Distances, extinctions and their       *)
(* errors are integers in one arbitrary unit (the scenario table counts    *)
(* hundredths).  The code only compares distances and copies the other     *)
(* fields, and the squared planar distance orders the grid points exactly  *)
(* as scipy's cdist does.                                                  *)
(*                                                                         *)
(* A numpy array is a sequence; python index i is TLA+ index i + 1.        *)
(***************************************************************************)
EXTENDS Integers, Sequences, FiniteSets, TLC

\* Bounds of the model.
\* The largest number of bins of a row of the backing table.
MaxBins == 2
\* The largest far edge of a row of the backing table.
MaxEdge == 3
\* The largest number of ages of one batch drawn from the age distribution.
MaxN == 2
\* The largest value a draw of the age distribution takes; draws start at 0.
MaxDraw == 4

\* python's None, an integer no field ever holds.
None == -9999

VARIABLES
    table,    \* the lines of surot_A_Ks_table1.csv, each a flat numeric record
    self,     \* the fields of the Surot instance
    op,       \* the method called last
    radius,   \* its radius argument (update_extinction_in_map)
    force,    \* its force argument (update_extinction_in_map)
    ret,      \* what it returned
    exc,      \* the exception it raised, or "none"
    prev,     \* what the instance looked like when it was called
    age       \* the Gaussian age distribution and its draw_random_age call

vars == <<table, self, op, radius, force, ret, exc, prev, age>>

---------------------------------------------------------------------------
(* numpy on sequences *)

\* a[i], i >= 0
Item(a, i) == a[i + 1]

\* a[start::step]
Stride(a, start, step) ==
    LET n == IF Len(a) > start THEN (Len(a) - start + step - 1) \div step ELSE 0
    IN  [k \in 1..n |-> a[start + (k - 1) * step + 1]]

\* a[:-n]
DropLast(a, n) == SubSeq(a, 1, IF Len(a) > n THEN Len(a) - n ELSE 0)

\* a[::-1]
Reverse(a) == [k \in 1..Len(a) |-> a[Len(a) + 1 - k]]

\* np.diff(a)
Diff(a) == [k \in 1..(Len(a) - 1) |-> a[k + 1] - a[k]]

\* numpy's check of the bins of np.digitize: 1 non-decreasing (also empty
\* or constant), -1 non-increasing, 0 neither.
Monotonicity(bins) ==
    IF \A k \in 1..(Len(bins) - 1) : bins[k] <= bins[k + 1] THEN 1
    ELSE IF \A k \in 1..(Len(bins) - 1) : bins[k] >= bins[k + 1] THEN -1
    ELSE 0

RECURSIVE BinSearchRight(_, _, _, _)
\* np.searchsorted(a, key, side='right') as numpy's binary search over [lo, hi)
BinSearchRight(a, key, lo, hi) ==
    IF lo >= hi THEN lo
    ELSE LET mid == lo + (hi - lo) \div 2
         IN  IF key < Item(a, mid) THEN BinSearchRight(a, key, lo, mid)
             ELSE BinSearchRight(a, key, mid + 1, hi)

RECURSIVE BinSearchLeft(_, _, _, _)
\* np.searchsorted(a, key, side='left')
BinSearchLeft(a, key, lo, hi) ==
    IF lo >= hi THEN lo
    ELSE LET mid == lo + (hi - lo) \div 2
         IN  IF Item(a, mid) < key THEN BinSearchLeft(a, key, mid + 1, hi)
             ELSE BinSearchLeft(a, key, lo, mid)

\* np.digitize with right=True: a value on an edge falls below it
digitize_right(x, bins) ==
    IF Monotonicity(bins) = -1
    THEN Len(bins) - BinSearchRight(Reverse(bins), x, 0, Len(bins))
    ELSE BinSearchLeft(bins, x, 0, Len(bins))

\* np.digitize(x, bins) with right=False, for bins that are monotonic
digitize(x, bins) ==
    IF Monotonicity(bins) = -1
    THEN Len(bins) - BinSearchLeft(Reverse(bins), x, 0, Len(bins))
    ELSE BinSearchRight(bins, x, 0, Len(bins))

---------------------------------------------------------------------------
(* Surot.__init__ *)

\* self.all_coords: columns 0 and 1 of every line of the table
all_coords(tbl) == [i \in 1..Len(tbl) |-> <<Item(tbl[i], 0), Item(tbl[i], 1)>>]

\* self.l_stepsize = all_coords[1, 0] - all_coords[0, 0]
l_stepsize(tbl) == all_coords(tbl)[2][1] - all_coords(tbl)[1][1]

\* the instance as __init__ leaves it
NewSurot ==
    [ l_deg |-> None, b_deg |-> None,
      sightline |-> <<>>,
      sightline_l_deg |-> None, sightline_b_deg |-> None,
      number_of_bins |-> None,
      far_bin_edge |-> None,
      radius_ind |-> None,
      near_bin_edge |-> None, near_bin_edge_err |-> None,
      extinction_in_map |-> None, extinction_in_map_err |-> None ]

---------------------------------------------------------------------------
(* Surot.update_extinction_in_map *)

\* the far edges of the active profile: self.sightline[5::4]
FarEdges(sl) == Stride(sl, 5, 4)

\* CacheHit that lets the cursor only advance
CacheHit_forward(ri, cached, f) == ri <= cached /\ ~f

\* CacheHit that never finds the cursor in place
CacheHit_never(ri, cached, f) == FALSE

\* CacheHit that does not look at force
CacheHit_ignoreforce(ri, cached, f) == ri = cached

\* radius_ind == self.radius_ind and not force
CacheHit(ri, cached, f) == ri = cached /\ ~f

\* BinField without its guard on the index: the record is read wherever it
\* holds the offset
BinField_unguarded(sl, ri, off) ==
    IF off + ri * 4 \in 0..(Len(sl) - 1) THEN Item(sl, off + ri * 4) ELSE 0

\* BinField that reads the bin before bin ri
BinField_binbefore(sl, ri, off) == IF ri > 0 THEN Item(sl, off + (ri - 1) * 4) ELSE 0

\* the value cached from offset off of bin ri: sightline[off + ri*4] if ri > 0 else 0
BinField(sl, ri, off) == IF ri > 0 THEN Item(sl, off + ri * 4) ELSE 0

\* update_extinction_in_map that moves the cursor one bin per call towards
\* the bin of the radius, the way a far_bin_edge cursor would be advanced
update_extinction_in_map_step(s, r, f) ==
    IF Monotonicity(FarEdges(s.sightline)) = 0
    THEN [self |-> s, ret |-> None, exc |-> "ValueError"]
    ELSE LET target == digitize(r, FarEdges(s.sightline)) - 1
             cur == IF s.radius_ind = None THEN -1 ELSE s.radius_ind
             ri == IF target > cur THEN cur + 1 ELSE IF target < cur THEN cur - 1 ELSE cur
         IN  IF CacheHit(ri, s.radius_ind, f)
             THEN [self |-> s, ret |-> 0, exc |-> "none"]
             ELSE [self |-> [s EXCEPT
                       !.radius_ind = ri,
                       !.near_bin_edge = BinField(s.sightline, ri, 5),
                       !.near_bin_edge_err = BinField(s.sightline, ri, 7),
                       !.extinction_in_map_err = BinField(s.sightline, ri, 8),
                       !.extinction_in_map = BinField(s.sightline, ri, 6)],
                   ret |-> 1, exc |-> "none"]

\* update_extinction_in_map without the "- 1" after np.digitize: the index
\* is assigned first, and a read past the end of the record raises
update_extinction_in_map_noshift(s, r, f) ==
    IF Monotonicity(FarEdges(s.sightline)) = 0
    THEN [self |-> s, ret |-> None, exc |-> "ValueError"]
    ELSE LET ri == digitize(r, FarEdges(s.sightline))
         IN  IF CacheHit(ri, s.radius_ind, f)
             THEN [self |-> s, ret |-> 0, exc |-> "none"]
             ELSE IF ri > 0 /\ 8 + ri * 4 >= Len(s.sightline)
                  THEN [self |-> [s EXCEPT !.radius_ind = ri],
                        ret |-> None, exc |-> "IndexError"]
                  ELSE [self |-> [s EXCEPT
                            !.radius_ind = ri,
                            !.near_bin_edge = BinField(s.sightline, ri, 5),
                            !.near_bin_edge_err = BinField(s.sightline, ri, 7),
                            !.extinction_in_map_err = BinField(s.sightline, ri, 8),
                            !.extinction_in_map = BinField(s.sightline, ri, 6)],
                        ret |-> 1, exc |-> "none"]

\* update_extinction_in_map(radius, force): the instance after the call,
\* what the call returns and what it raises
update_extinction_in_map(s, r, f) ==
    IF Monotonicity(FarEdges(s.sightline)) = 0
    THEN [self |-> s, ret |-> None, exc |-> "ValueError"]
    ELSE LET ri == digitize(r, FarEdges(s.sightline)) - 1
         IN  IF CacheHit(ri, s.radius_ind, f)
             THEN [self |-> s, ret |-> 0, exc |-> "none"]
             ELSE [self |-> [s EXCEPT
                       !.radius_ind = ri,
                       !.near_bin_edge = BinField(s.sightline, ri, 5),
                       !.near_bin_edge_err = BinField(s.sightline, ri, 7),
                       !.extinction_in_map_err = BinField(s.sightline, ri, 8),
                       !.extinction_in_map = BinField(s.sightline, ri, 6)],
                   ret |-> 1, exc |-> "none"]

---------------------------------------------------------------------------
(* Surot.find_sightline *)

\* 360 and 180 degrees in tenths of a degree
Deg(d) == 10 * d

\* the wrap without the half step: l_deg - 360 if l_deg > 180 else l_deg
WrapLongitude_nohalfstep(l, step) == IF l > Deg(180) THEN l - Deg(360) ELSE l

\* l_deg - 360 if l_deg > (180 - l_stepsize / 2) else l_deg
WrapLongitude(l, step) == IF 2 * l > 2 * Deg(180) - step THEN l - Deg(360) ELSE l

\* one row of cdist([[l, b]], all_coords), squared
cdist(l, b, coords) ==
    [i \in 1..Len(coords) |->
        (l - coords[i][1]) * (l - coords[i][1]) + (b - coords[i][2]) * (b - coords[i][2])]

\* ndarray.argmin(): the first 0-based index of a minimum
argmin(d) ==
    (CHOOSE i \in 1..Len(d) :
        /\ \A j \in 1..Len(d) : d[i] <= d[j]
        /\ \A j \in 1..(i - 1) : d[j] > d[i]) - 1

\* getline that counts lines from 0
getline_from_zero(tbl, lineno) == IF lineno \in 0..(Len(tbl) - 1) THEN tbl[lineno + 1] ELSE <<>>

\* linecache.getline(file, lineno) parsed by np.fromstring: the record of
\* the 1-based line, empty when the file has no such line
getline(tbl, lineno) == IF lineno \in 1..Len(tbl) THEN tbl[lineno] ELSE <<>>

\* MinDistArg that falls back to the first line of the table, not to the
\* line nearest to the origin, when no coordinate is set
MinDistArg_firstline(s, tbl) ==
    IF s.l_deg = None
    THEN 0
    ELSE argmin(cdist(WrapLongitude(s.l_deg, l_stepsize(tbl)), s.b_deg, all_coords(tbl)))

\* the 0-based index of the grid point nearest to the query
MinDistArg(s, tbl) ==
    IF s.l_deg = None
    THEN argmin(cdist(0, 0, all_coords(tbl)))
    ELSE argmin(cdist(WrapLongitude(s.l_deg, l_stepsize(tbl)), s.b_deg, all_coords(tbl)))

\* the repair with <= for <: equal neighbouring edges drop the last bin too
Repair_nonstrict(sl) ==
    IF \E k \in 1..(Len(FarEdges(sl)) - 1) : Diff(FarEdges(sl))[k] <= 0
    THEN DropLast(sl, 4)
    ELSE sl

\* no repair at all
Repair_never(sl) == sl

\* the repair: if any(np.diff(sightline[5::4]) < 0) drop the last four numbers
Repair(sl) ==
    IF \E k \in 1..(Len(FarEdges(sl)) - 1) : Diff(FarEdges(sl))[k] < 0
    THEN DropLast(sl, 4)
    ELSE sl

find_sightline(s, tbl) ==
    [s EXCEPT !.sightline = Repair(getline(tbl, MinDistArg(s, tbl) + 1))]

---------------------------------------------------------------------------
(* Surot.init_sightline and Surot.update_line_of_sight *)

\* init_sightline without its closing update_extinction_in_map call
init_sightline_noupdate(s) ==
    LET sl == s.sightline
        n  == Len(sl)
    IN  [self |-> [s EXCEPT
                     !.sightline_l_deg = IF n > 0 THEN Item(sl, 0) ELSE @,
                     !.sightline_b_deg = IF n > 1 THEN Item(sl, 1) ELSE @,
                     !.number_of_bins = IF n > 4 THEN Item(sl, 4) ELSE @,
                     !.radius_ind = IF n > 4 THEN 0 ELSE @,
                     !.near_bin_edge = IF n > 4 THEN 0 ELSE @,
                     !.far_bin_edge = IF n > 5 THEN Item(sl, 5) ELSE @],
         ret |-> None,
         exc |-> IF n > 5 THEN "none" ELSE "IndexError"]

\* init_sightline: the field reads up to sightline[5], the resets, and the
\* forced update at near_bin_edge = 0.  A record shorter than six numbers
\* raises IndexError at the first read past its end, and the assignments
\* before that read stand.
init_sightline(s) ==
    LET sl == s.sightline
        n  == Len(sl)
        s1 == [s EXCEPT
                 !.sightline_l_deg = IF n > 0 THEN Item(sl, 0) ELSE @,
                 !.sightline_b_deg = IF n > 1 THEN Item(sl, 1) ELSE @,
                 !.number_of_bins = IF n > 4 THEN Item(sl, 4) ELSE @,
                 !.radius_ind = IF n > 4 THEN 0 ELSE @,
                 !.near_bin_edge = IF n > 4 THEN 0 ELSE @,
                 !.far_bin_edge = IF n > 5 THEN Item(sl, 5) ELSE @]
    IN  IF n > 5
        THEN update_extinction_in_map(s1, s1.near_bin_edge, TRUE)
        ELSE [self |-> s1, ret |-> None, exc |-> "IndexError"]

update_line_of_sight(s, tbl, l, b) ==
    LET r == init_sightline(find_sightline([s EXCEPT !.l_deg = l, !.b_deg = b], tbl))
    IN  [self |-> r.self, ret |-> None, exc |-> r.exc]

---------------------------------------------------------------------------
(* The backing table *)

\* the four numbers of bin k (0-based) with far edge e; the three other
\* numbers are distinct tags naming the bin and the offset they sit at
BinRecord(k, e) == <<e, 20 + k, 40 + k, 60 + k>>

RECURSIVE Flatten(_)
Flatten(ss) == IF ss = <<>> THEN <<>> ELSE Head(ss) \o Flatten(Tail(ss))

\* one line of the table: l, b, chi2_allstars, chi2_giants, number_of_bins,
\* then four numbers per bin
Row(l, b, edges) ==
    <<l, b, 1, 1, Len(edges)>> \o Flatten([k \in 1..Len(edges) |-> BinRecord(k - 1, edges[k])])

\* the far-edge sequences of the table: positive, non-decreasing, except
\* that the last edge may be smaller than the one before it (the defect of
\* the data the repair is written for)
EdgeSeqs ==
    UNION { { e \in [1..n -> 1..MaxEdge] :
                \A k \in 1..(n - 2) : e[k] <= e[k + 1] } : n \in 1..MaxBins }

\* the reference grids: three sight lines each, in tenths of a degree; the
\* longitude step of the first is 1 degree, of the second -1 degree
Grids ==
    { << <<-10, 0>>, <<0, 0>>, <<0, 10>> >>,
      << <<0, 10>>, <<-10, 0>>, <<0, 0>> >> }

\* the far edges of the first and the last line of a table
FirstEdges == <<1, 3>>
LastEdges == <<2, 3, 1>>

\* the tables: a grid, any far-edge sequence on the middle line
Tables ==
    { << Row(g[1][1], g[1][2], FirstEdges),
         Row(g[2][1], g[2][2], e),
         Row(g[3][1], g[3][2], LastEdges) >> : g \in Grids, e \in EdgeSeqs }

\* the coordinates and distances the driver asks for
Queries == { <<-5, 0>>, <<3595, 0>>, <<-1, 4>>, <<10, 6>>, <<1797, 6>>, <<-1803, 6>> }
Radii == (-1)..(MaxEdge + 1)

---------------------------------------------------------------------------
(* Gaussian (src/modules/age/gaussian.py).  Ages are integers here; a      *)
(* draw of np.random.normal is any number of 0..MaxDraw.                   *)

\* the instance __init__ leaves when low_bound < high_bound (it raises
\* ValueError otherwise), with no draw_random_age call under way:
\* N and val are the argument and the local of the call, pc its position,
\* redrawn whether the call drew some value again
Gaussian(low_bound, high_bound) ==
    [ lower |-> low_bound, upper |-> high_bound,
      N |-> None, val |-> <<>>, pc |-> "idle", redrawn |-> FALSE ]

\* the values a draw takes
Draws == 0..MaxDraw

\* the test of the single draw: self.lower < val < self.upper
inside(g, v) == g.lower < v /\ v < g.upper

\* the test of the batch that looks at the upper bound only
outside_upperonly(g, v) == v > g.upper

\* the test of the batch: (self.lower > val) | (val > self.upper)
outside(g, v) == (g.lower > v) \/ (v > g.upper)

\* get_maximum_age: return self.upper
get_maximum_age(g) == g.upper

---------------------------------------------------------------------------
(* The state machine *)

\* what a call finds: the call before it, its radius, and the cursor and
\* the active sight line it left
Snapshot ==
    [ op |-> op, radius |-> radius, radius_ind |-> self.radius_ind,
      line |-> <<self.sightline_l_deg, self.sightline_b_deg>> ]

Init ==
    /\ table \in Tables
    /\ self = NewSurot
    /\ op = "__init__"
    /\ radius = None
    /\ force = FALSE
    /\ ret = None
    /\ exc = "none"
    /\ prev = [op |-> "none", radius |-> None, radius_ind |-> None, line |-> <<None, None>>]
    /\ age = Gaussian(0, 20)

UpdateLineOfSight(l, b) ==
    LET r == update_line_of_sight(self, table, l, b)
    IN  /\ self' = r.self
        /\ ret' = r.ret
        /\ exc' = r.exc
        /\ op' = "update_line_of_sight"
        /\ radius' = None
        /\ force' = FALSE
        /\ prev' = Snapshot
        /\ UNCHANGED <<table, age>>

UpdateExtinctionInMap(r, f) ==
    LET res == update_extinction_in_map(self, r, f)
    IN  /\ self' = res.self
        /\ ret' = res.ret
        /\ exc' = res.exc
        /\ op' = "update_extinction_in_map"
        /\ radius' = r
        /\ force' = f
        /\ prev' = Snapshot
        /\ UNCHANGED <<table, age>>

Next ==
    \/ \E q \in Queries : UpdateLineOfSight(q[1], q[2])
    \/ \E r \in Radii, f \in BOOLEAN : UpdateExtinctionInMap(r, f)

Spec == Init /\ [][Next]_vars

---------------------------------------------------------------------------
(* find_sightline called on its own, as its docstring allows ("can be      *)
(* used to reset the class to a new sightline"), also before any           *)
(* coordinate is set.                                                      *)

FindSightline ==
    /\ self' = find_sightline(self, table)
    /\ ret' = None
    /\ exc' = "none"
    /\ op' = "find_sightline"
    /\ radius' = None
    /\ force' = FALSE
    /\ prev' = Snapshot
    /\ UNCHANGED <<table, age>>

NextFindSightline ==
    \/ \E q \in Queries : UpdateLineOfSight(q[1], q[2])
    \/ \E r \in Radii, f \in BOOLEAN : UpdateExtinctionInMap(r, f)
    \/ FindSightline

SpecFindSightline == Init /\ [][NextFindSightline]_vars

---------------------------------------------------------------------------
(* Tables whose lines the code does not expect: a line without bins, far   *)
(* edges in any order.                                                     *)

\* any far-edge sequence, the empty one included
AnyEdgeSeqs == UNION { [1..n -> 1..MaxEdge] : n \in 0..MaxBins }

\* far edges out of order before the last bin
DisorderedEdges == <<1, 3, 2, 3>>

\* the tables: the first grid, far edges out of order on its first line, any
\* far-edge sequence on the middle line
AnyTables ==
    { << Row(-10, 0, DisorderedEdges), Row(0, 0, e), Row(0, 10, LastEdges) >> :
          e \in AnyEdgeSeqs }

InitAnyRecord ==
    /\ table \in AnyTables
    /\ self = NewSurot
    /\ op = "__init__"
    /\ radius = None
    /\ force = FALSE
    /\ ret = None
    /\ exc = "none"
    /\ prev = [op |-> "none", radius |-> None, radius_ind |-> None, line |-> <<None, None>>]
    /\ age = Gaussian(0, 20)

SpecAnyRecord == InitAnyRecord /\ [][Next]_vars

---------------------------------------------------------------------------
(* Gaussian.draw_random_age, one action per turn of its loops *)

InitGaussian ==
    /\ table = <<>>
    /\ self = NewSurot
    /\ op = "__init__"
    /\ radius = None
    /\ force = FALSE
    /\ ret = None
    /\ exc = "none"
    /\ prev = [op |-> "none", radius |-> None, radius_ind |-> None, line |-> <<None, None>>]
    /\ \E lo \in 1..(MaxDraw - 1), hi \in 1..(MaxDraw - 1) :
           /\ lo < hi
           /\ age = Gaussian(lo, hi)

\* N is None: one turn of "while True": draw, return val if it is inside.
\* The first turn is the call itself.
DrawSingle(v) ==
    /\ age.pc \in {"idle", "returned", "single"}
    /\ age' = [age EXCEPT
                  !.N = None,
                  !.val = <<v>>,
                  !.redrawn = (age.pc = "single"),
                  !.pc = IF inside(age, v) THEN "returned" ELSE "single"]
    /\ UNCHANGED <<table, self, op, radius, force, ret, exc, prev>>

\* N given: val = np.random.normal(mean, std, N)
DrawBatch(n, vs) ==
    /\ age.pc \in {"idle", "returned"}
    /\ Len(vs) = n
    /\ age' = [age EXCEPT !.N = n, !.val = vs, !.redrawn = FALSE, !.pc = "batch"]
    /\ UNCHANGED <<table, self, op, radius, force, ret, exc, prev>>

\* N given: one turn of "while True": return val if no entry is outside,
\* else draw the outside entries again (news holds sum(outside) draws)
BatchLoop(news) ==
    /\ age.pc = "batch"
    /\ LET out == {i \in 1..Len(age.val) : outside(age, age.val[i])}
           rank(i) == Cardinality({j \in out : j <= i})
       IN  /\ Len(news) = Cardinality(out)
           /\ age' = IF out = {}
                     THEN [age EXCEPT !.pc = "returned"]
                     ELSE [age EXCEPT
                             !.val = [i \in 1..Len(age.val) |->
                                        IF i \in out THEN news[rank(i)] ELSE age.val[i]],
                             !.redrawn = TRUE]
    /\ UNCHANGED <<table, self, op, radius, force, ret, exc, prev>>

\* the arrays of at most MaxN draws
DrawSeqs == UNION { [1..n -> Draws] : n \in 0..MaxN }

NextGaussian ==
    \/ \E v \in Draws : DrawSingle(v)
    \/ \E vs \in DrawSeqs : DrawBatch(Len(vs), vs)
    \/ \E news \in DrawSeqs : BatchLoop(news)

SpecGaussian == InitGaussian /\ [][NextGaussian]_vars

---------------------------------------------------------------------------
(* The scenario of the specification's section 8, in hundredths: sight     *)
(* lines at (10.0, 0.0) and (20.0, 0.0), and line 1 with the bins          *)
(* (5, 0.1, 0.2, 0.01) and (10, 0.1, 0.5, 0.02).  The scenario leaves the  *)
(* bins of line 2 open.  Coordinates stay in tenths of a degree.           *)

ScenarioTable ==
    << <<100, 0, 1, 1, 2,  500, 10, 20, 1,  1000, 10, 50, 2>>,
       <<200, 0, 1, 1, 2,  400, 10, 30, 1,   800, 10, 60, 2>> >>

ScenarioQueries == { <<110, 5>>, <<100, 0>>, <<160, 0>>, <<200, 0>> }
ScenarioRadii == { 0, 300, 500, 700, 1000, 1200 }

InitScenario ==
    /\ table = ScenarioTable
    /\ self = NewSurot
    /\ op = "__init__"
    /\ radius = None
    /\ force = FALSE
    /\ ret = None
    /\ exc = "none"
    /\ prev = [op |-> "none", radius |-> None, radius_ind |-> None, line |-> <<None, None>>]
    /\ age = Gaussian(0, 20)

NextScenario ==
    \/ \E q \in ScenarioQueries : UpdateLineOfSight(q[1], q[2])
    \/ \E r \in ScenarioRadii, f \in BOOLEAN : UpdateExtinctionInMap(r, f)

SpecScenario == InitScenario /\ [][NextScenario]_vars

---------------------------------------------------------------------------
(* What the claims speak of *)

\* a sight line has been loaded
Active == self.sightline /= <<>>

\* the last call was a distance query that returned
Queried == op = "update_extinction_in_map" /\ exc = "none"

\* the last call set the sight line
SightLineSet == op = "update_line_of_sight"

\* the active sight line's coordinates
Line == <<self.sightline_l_deg, self.sightline_b_deg>>

\* the cached query state
Cache(s) ==
    <<s.radius_ind, s.near_bin_edge, s.near_bin_edge_err,
      s.extinction_in_map, s.extinction_in_map_err>>

\* the answer of a query: (extinction_in_map, extinction_in_map_err)
Answer == <<self.extinction_in_map, self.extinction_in_map_err>>

\* the bin tuple k (0-based) of a profile as the data model lays it out:
\* (far_edge, far_edge_err, extinction_value, extinction_value_err)
BinTuple(sl, k) ==
    [ far_edge |-> Item(sl, 5 + 4 * k), far_edge_err |-> Item(sl, 6 + 4 * k),
      extinction_value |-> Item(sl, 7 + 4 * k),
      extinction_value_err |-> Item(sl, 8 + 4 * k) ]

\* the number of bin tuples of a profile
NumBins(sl) == Len(FarEdges(sl))

\* the 0-based indices of the bins whose far edge is <= d
BinsWithin(sl, d) == { k \in 0..(NumBins(sl) - 1) : FarEdges(sl)[k + 1] <= d }

\* the last of them
LastWithin(sl, d) == CHOOSE k \in BinsWithin(sl, d) : \A j \in BinsWithin(sl, d) : j <= k

---------------------------------------------------------------------------
(* The claims *)

\* C1: in the scenario, the sight line set to (11.0, 0.5) and queried at
\* distance 7 is sight line 1 and answers (0.2, 0.01); and every query
\* answers with the extinction value and error of the last bin tuple whose
\* far edge is <= the distance, or (0, 0) when no far edge is.
C1_ScenarioAndLastBin ==
    (Queried /\ Active) =>
        /\ (self.l_deg = 110 /\ self.b_deg = 5 /\ radius = 700) =>
               (Line = <<100, 0>> /\ Answer = <<20, 1>>)
        /\ Answer =
               IF BinsWithin(self.sightline, radius) = {} THEN <<0, 0>>
               ELSE LET t == BinTuple(self.sightline, LastWithin(self.sightline, radius))
                    IN  <<t.extinction_value, t.extinction_value_err>>

\* C2: a query beyond the last far edge of a profile with at least one bin
\* answers with the last bin's stored extinction value and error, whatever
\* the distance beyond.  The stored value and error are taken where the code
\* itself reads them, at offsets 6 and 8 of the bin.
C2_BeyondLastEdge ==
    (Queried /\ Active /\ radius > FarEdges(self.sightline)[NumBins(self.sightline)]) =>
        Answer = << Item(self.sightline, 6 + 4 * (NumBins(self.sightline) - 1)),
                    Item(self.sightline, 8 + 4 * (NumBins(self.sightline) - 1)) >>

\* C3: a query at distance 0 on the active sight line resolves to the
\* zeroth bin (cursor -1 or 0) and answers (0, 0).
C3_ZeroDistance ==
    (Queried /\ Active /\ radius = 0) =>
        (self.radius_ind \in {-1, 0} /\ Answer = <<0, 0>>)

\* C3 witness: a query at distance 0 that came back from a bin with stored
\* values
C3_Witness ==
    Queried /\ Active /\ radius = 0 /\ prev.radius_ind > 0 /\ ret = 1 /\ ~force

\* the far edges with every distance doubled, so that 2e - 1 and 2e + 1 are
\* distances just below and just above the edge e, with no edge in between
DoubledEdges == [k \in 1..NumBins(self.sightline) |-> 2 * FarEdges(self.sightline)[k]]

\* the cache a change to bin index ri leaves
CacheAt(ri) ==
    << ri, BinField(self.sightline, ri, 5), BinField(self.sightline, ri, 7),
       BinField(self.sightline, ri, 6), BinField(self.sightline, ri, 8) >>

\* the last query's radius is a far edge of the active profile
OnEdge == \E k \in 1..NumBins(self.sightline) : FarEdges(self.sightline)[k] = radius

\* C4 as claimed: a radius equal to a far edge resolves like a radius just
\* below that edge.
C4_EdgeInLowerBin ==
    (Queried /\ Active /\ OnEdge) =>
        Cache(self) = CacheAt(digitize(2 * radius - 1, DoubledEdges) - 1)

\* C4 amended: a radius equal to a far edge resolves like a radius just
\* above that edge (the bin that starts at the edge), with the same
\* radius_ind and cached values.
C4_EdgeInUpperBin ==
    (Queried /\ Active /\ OnEdge) =>
        Cache(self) = CacheAt(digitize(2 * radius + 1, DoubledEdges) - 1)

\* C4 witness: a query on an edge that is the far edge of a bin with a bin
\* below it, so that the bins below and above the edge cache different values
C4_Witness ==
    Queried /\ Active /\ OnEdge /\ self.radius_ind > 0 /\ self.extinction_in_map > 0

\* C5: after any sequence of queries on one active sight line the cache is
\* the one a single query for the last radius leaves on an instance freshly
\* set to the same sight line.
C5_HistoryIndependent ==
    (Queried /\ Active) =>
        Cache(self) =
            Cache(update_extinction_in_map(
                      update_line_of_sight(NewSurot, table, self.l_deg, self.b_deg).self,
                      radius, FALSE).self)

\* C5 witness: a query that moved the cursor back from a later bin, after
\* another query on the same sight line
C5_Witness ==
    /\ Queried /\ Active /\ ~force
    /\ prev.op = "update_extinction_in_map" /\ prev.line = Line
    /\ prev.radius > radius /\ prev.radius_ind > self.radius_ind
    /\ self.radius_ind >= 0

\* C6: the same query issued twice in a row (same sight line, same
\* distance) answers the same, and the second call changes no field of the
\* instance.
C6_Idempotent ==
    [][ ( /\ op = "update_extinction_in_map" /\ exc = "none"
          /\ op' = "update_extinction_in_map"
          /\ radius' = radius )
        => (self' = self /\ exc' = "none") ]_vars

\* C6 witness: a second query at the same distance, in a bin with stored
\* values, that returned "unchanged"
C6_Witness ==
    /\ Queried /\ Active /\ ~force /\ ret = 0
    /\ prev.op = "update_extinction_in_map" /\ prev.radius = radius
    /\ prev.line = Line /\ self.radius_ind > 0

\* the radius of the query before the next one: after a sight-line switch
\* it is the 0 of init_sightline's own query
LastRadius == IF op = "update_extinction_in_map" THEN radius ELSE 0

\* C7: along strictly increasing radii on one active sight line a query
\* reports "changed" exactly when a far edge lies between the previous
\* radius and its own, and otherwise reports "unchanged" and leaves the
\* instance as it was.
C7_ChangedOnlyAtEdges ==
    [][ ( /\ Active
          /\ op \in {"update_extinction_in_map", "update_line_of_sight"}
          /\ op' = "update_extinction_in_map" /\ ~force'
          /\ LastRadius < radius' )
        => /\ ret' \in {0, 1}
           /\ ret' = 1 <=>
                  \E k \in 1..NumBins(self.sightline) :
                      /\ LastRadius < FarEdges(self.sightline)[k]
                      /\ FarEdges(self.sightline)[k] <= radius'
           /\ ret' = 0 => self' = self ]_vars

\* C7 witness: a query at a larger radius than the query before it, on the
\* same sight line, that crossed an edge and reported "changed"
C7_Witness ==
    /\ Queried /\ Active /\ ~force /\ ret = 1
    /\ prev.op = "update_extinction_in_map" /\ prev.line = Line
    /\ prev.radius < radius /\ prev.radius_ind >= 0
    /\ self.radius_ind > prev.radius_ind

\* C8: every update_line_of_sight ends with the cursor before the first
\* bin (-1 or 0) and the four cached values 0.
C8_ResetOnSwitch ==
    SightLineSet =>
        /\ self.radius_ind \in {-1, 0}
        /\ self.near_bin_edge = 0 /\ self.near_bin_edge_err = 0
        /\ self.extinction_in_map = 0 /\ self.extinction_in_map_err = 0

\* C8 witness: a switch to another sight line from a cursor inside the
\* profile of the old one
C8_Witness ==
    SightLineSet /\ exc = "none" /\ prev.radius_ind > 0 /\ prev.line /= Line

\* the longitude lies in the wrapped range of C9: 180 - l_stepsize/2 < l <= 360
InSeam(l) == 2 * l > 2 * Deg(180) - l_stepsize(table) /\ l <= Deg(360)

\* C9: for 180 - l_stepsize/2 < l <= 360, setting the sight line to (l, b)
\* loads the reference sight line that setting it to (l - 360, b) loads.
C9_Wraparound ==
    (SightLineSet /\ InSeam(self.l_deg)) =>
        LET other == update_line_of_sight(NewSurot, table, self.l_deg - Deg(360), self.b_deg).self
        IN  /\ self.sightline = other.sightline
            /\ Line = <<other.sightline_l_deg, other.sightline_b_deg>>

\* C9 witness: a longitude in the wrapped range whose unwrapped value is
\* nearest to another grid point
C9_Witness ==
    /\ SightLineSet /\ InSeam(self.l_deg)
    /\ argmin(cdist(self.l_deg, self.b_deg, all_coords(table)))
         /= argmin(cdist(self.l_deg - Deg(360), self.b_deg, all_coords(table)))

\* the squared planar distance of grid point i (1-based) to the wrapped query
QueryDist(i) ==
    LET l == WrapLongitude(self.l_deg, l_stepsize(table))
        c == all_coords(table)[i]
    IN  (l - c[1]) * (l - c[1]) + (self.b_deg - c[2]) * (self.b_deg - c[2])

\* C10: the loaded profile is line i + 1 of the table for a grid point i
\* (0-based) nearest to the wrapped query: its coordinates are those of
\* the grid point and no grid point is strictly closer.
C10_NearestGridPoint ==
    SightLineSet =>
        \E i \in 0..(Len(table) - 1) :
            /\ self.sightline = Repair(table[i + 1])
            /\ Line = all_coords(table)[i + 1]
            /\ \A j \in 1..Len(table) : QueryDist(i + 1) <= QueryDist(j)

\* C10 witness: the nearest grid point is the last line of the table
C10_Witness ==
    /\ SightLineSet /\ exc = "none"
    /\ Line = all_coords(table)[Len(table)]
    /\ \A j \in 1..(Len(table) - 1) : QueryDist(Len(table)) < QueryDist(j)

\* the record fetched for the current coordinates, before the repair
Fetched == getline(table, MinDistArg(self, table) + 1)

\* the far edges of a record do not decrease up to index n
NonDecreasingUpTo(sl, n) == \A k \in 1..(n - 1) : FarEdges(sl)[k] <= FarEdges(sl)[k + 1]

\* C11: a fetched record whose last far edge is smaller than the one before
\* it is loaded without its last bin, and only without it; a record whose
\* far-edge differences are all non-negative is loaded as it is.
C11_RepairDropsLastBin ==
    SightLineSet =>
        LET n == NumBins(Fetched)
        IN  /\ (n >= 2 /\ FarEdges(Fetched)[n] < FarEdges(Fetched)[n - 1]) =>
                   self.sightline = SubSeq(Fetched, 1, 5 + 4 * (n - 1))
            /\ NonDecreasingUpTo(Fetched, n) => self.sightline = Fetched

\* C11 witness: a record of three bins with a smaller last edge is loaded
\* with its first two bins
C11_Witness ==
    /\ SightLineSet /\ NumBins(Fetched) = 3
    /\ FarEdges(Fetched)[3] < FarEdges(Fetched)[2]
    /\ NumBins(self.sightline) = 2

\* C12: a query with a negative distance is rejected with an error: it
\* returns nothing and leaves the cursor and the cached values as they were.
C12_NegativeRejected ==
    (op = "update_extinction_in_map" /\ radius < 0) =>
        (exc /= "none" /\ ret = None /\ self.radius_ind = prev.radius_ind)

\* the squared planar distance of grid point i (1-based) to the origin
OriginDist(i) ==
    LET c == all_coords(table)[i]
    IN  c[1] * c[1] + c[2] * c[2]

\* C13: find_sightline on an instance on which no coordinate was ever set
\* loads the (repaired) line of the grid point nearest to the origin (0, 0).
C13_BootstrapAtOrigin ==
    (op = "find_sightline" /\ self.l_deg = None) =>
        \E i \in 1..Len(table) :
            /\ self.sightline = Repair(table[i])
            /\ <<Item(self.sightline, 0), Item(self.sightline, 1)>> = all_coords(table)[i]
            /\ \A j \in 1..Len(table) : OriginDist(i) <= OriginDist(j)

\* C13 witness: no coordinate set, and the line loaded is not the first of
\* the table
C13_Witness ==
    /\ op = "find_sightline" /\ self.l_deg = None /\ self.b_deg = None
    /\ self.sightline /= <<>>
    /\ <<Item(self.sightline, 0), Item(self.sightline, 1)>> /= all_coords(table)[1]

\* the bin index a radius resolves to on a profile with non-decreasing far
\* edges: the number of far edges <= the radius, less one
Resolved(sl, r) == Cardinality(BinsWithin(sl, r)) - 1

\* C14: update_extinction_in_map returns 0 exactly when the resolved bin
\* index equals the cached radius_ind and force is false, and then changes
\* no field; with force true it recomputes the cached values and returns 1.
C14_UnchangedIffSameBin ==
    [][ (op' = "update_extinction_in_map" /\ exc' = "none")
        => LET ri == Resolved(self.sightline, radius')
           IN  /\ ret' \in {0, 1}
               /\ ret' = 0 <=> (ri = self.radius_ind /\ ~force')
               /\ ret' = 0 => self' = self
               /\ force' =>
                      /\ ret' = 1
                      /\ self'.sightline = self.sightline
                      /\ Cache(self') =
                             << ri, BinField(self.sightline, ri, 5), BinField(self.sightline, ri, 7),
                                BinField(self.sightline, ri, 6), BinField(self.sightline, ri, 8) >> ]_vars

\* C14 witness: a forced query in the bin the cursor was already in, a bin
\* with stored values, returned "changed"
C14_Witness ==
    /\ Queried /\ Active /\ force /\ ret = 1
    /\ prev.radius_ind = self.radius_ind /\ prev.line = Line
    /\ self.radius_ind > 0

\* the numbers of bin k (0-based) of a record as the code reads them:
\* (far_edge, extinction_value, far_edge_err, extinction_value_err)
BinTupleRead(sl, k) ==
    [ far_edge |-> Item(sl, 5 + 4 * k), extinction_value |-> Item(sl, 6 + 4 * k),
      far_edge_err |-> Item(sl, 7 + 4 * k),
      extinction_value_err |-> Item(sl, 8 + 4 * k) ]

\* the last query changed the cursor (or was forced) on the active sight line
Changed == Queried /\ Active /\ ret = 1

C17_NumberOfBinsIsCount ==
    Active => self.number_of_bins = NumBins(self.sightline)

\* the offsets update_extinction_in_map reads for bin index ri
ReadOffsets(ri) == {5 + 4 * ri, 6 + 4 * ri, 7 + 4 * ri, 8 + 4 * ri}

\* C19: on profiles with at least one bin, radius_ind stays in [-1, n - 1],
\* n the number of bins of the active profile, and the offsets
\* 5 + 4*radius_ind .. 8 + 4*radius_ind that are read (radius_ind > 0) lie
\* inside the record of the active sight line.
C19_IndexInsideRecord ==
    Active =>
        /\ self.radius_ind \in (-1)..(NumBins(self.sightline) - 1)
        /\ self.radius_ind > 0 =>
               ReadOffsets(self.radius_ind) \subseteq 0..(Len(self.sightline) - 1)
        /\ Item(self.sightline, 0) = self.sightline_l_deg
        /\ Item(self.sightline, 1) = self.sightline_b_deg

\* C19 witness: a query at or beyond the last far edge read the last bin of
\* the record, on a profile of more than one bin
C19_Witness ==
    /\ Queried /\ Active /\ ret = 1
    /\ self.radius_ind > 0
    /\ self.radius_ind = NumBins(self.sightline) - 1
    /\ 8 + 4 * self.radius_ind = Len(self.sightline) - 1

\* the far edges of a record do not decrease anywhere
NonDecreasing(sl) == NonDecreasingUpTo(sl, NumBins(sl))

\* C16 as claimed: whenever a sight line is active, whatever record was
\* fetched, the far edges of the active profile are non-decreasing.
C16_EdgesNonDecreasing ==
    Active => NonDecreasing(self.sightline)

\* C16 amended: whenever a sight line is active and the far edges of the
\* fetched record are non-decreasing except possibly for the last one, the
\* far edges of the active profile are non-decreasing: the bin search runs
\* over a monotonic sequence and no out-of-order edge is left.
C16_EdgesNonDecreasingAfterTailDefect ==
    (Active /\ NonDecreasingUpTo(Fetched, NumBins(Fetched) - 1)) =>
        /\ NonDecreasing(self.sightline)
        /\ Monotonicity(FarEdges(self.sightline)) = 1
        /\ exc /= "ValueError"

\* C16 witness: a distance was resolved on a profile of more than one bin
\* that lost its out-of-order last bin
C16_Witness ==
    /\ Queried /\ Active /\ ret = 1
    /\ NonDecreasingUpTo(Fetched, NumBins(Fetched) - 1)
    /\ ~NonDecreasing(Fetched)
    /\ self.sightline = DropLast(Fetched, 4)
    /\ NumBins(self.sightline) > 1

\* the loaded profile holds no bin
NoBin == Len(self.sightline) > 0 /\ NumBins(self.sightline) < 1

\* C18 as claimed: when the profile loaded by update_line_of_sight holds no
\* bin, that call raises, and so does every later update_extinction_in_map
\* on it: no call answers from the profile.
C18_NoBinProfileRejected ==
    NoBin =>
        /\ op = "update_line_of_sight" => exc /= "none"
        /\ op = "update_extinction_in_map" => (exc /= "none" /\ ret = None)

\* draw_random_age has returned age.val
Returned == age.pc = "returned"

\* C20: every age draw_random_age returns, the single value and every
\* entry of a batch, lies within [low_bound, high_bound] whatever the
\* draws were, the entries never found outside are returned as first drawn,
\* and get_maximum_age is an upper bound of every returned age.
C20_AgesWithinBounds ==
    Returned =>
        /\ \A i \in 1..Len(age.val) :
               /\ age.lower <= age.val[i]
               /\ age.val[i] <= age.upper
               /\ age.val[i] <= get_maximum_age(age)
        /\ Len(age.val) = IF age.N = None THEN 1 ELSE age.N

\* C20 witness: a batch returned after some entry was drawn again, one of
\* its ages on the lower bound and one on the upper bound
C20_Witness ==
    /\ Returned /\ age.N /= None /\ age.N > 1 /\ age.redrawn
    /\ \E i \in 1..Len(age.val) : age.val[i] = age.lower
    /\ \E i \in 1..Len(age.val) : age.val[i] = age.upper

=============================================================================
